---------------------------- MODULE Spec2Model ----------------------------
(***************************************************************************)
(* A model of the i18n code generator of plabayo-news-builder              *)
(* (src/plabayo-news-builder/src/i18n/codegen.rs):                         *)
(*                                                                         *)
(*   - LocaleStringWithDefaultIter, the fallback merge of a locale catalog *)
(*     against the default catalog            (specification SpecMerge);   *)
(*   - generate_locales_strings_struct, the schema compiler                *)
(*                                            (specification SpecStruct);  *)
(*   - generate_locales_strings_instance, the instance emitter             *)
(*                                            (specification SpecInstance);*)
(*   - generate_locales, which runs them over a storage and writes         *)
(*     locales.rs                             (specification Spec).        *)
(*                                                                         *)
(* Text written to the output is modelled as a sequence of lines, each a   *)
(* record holding the parts the format string is filled with.              *)
(***************************************************************************)
EXTENDS Naturals, Integers, Sequences, FiniteSets, TLC

(***************************************************************************)
(* Bounds of the model.                                                    *)
(***************************************************************************)
\* most entries of a catalog of the merge
MergeMaxLen == 3
\* longest key path given to the schema compiler
StructPathLen == 3
\* most key paths given to the schema compiler
StructMaxLen == 3
\* longest key path given to the instance emitter
InstancePathLen == 3
\* most pairs given to the instance emitter
InstanceMaxLen == 2
\* most entries of a catalog of the storage generate_locales runs on
StorageMaxLen == 1

(***************************************************************************)
(* Strings: segments, values, their order and their case conversions.      *)
(***************************************************************************)
\* Option<T>: None, or Some(x)
None == << >>
Some(x) == << x >>

\* the raw key segments the catalogs are built from
Segs == {"a", "bC"}
\* the locale identifiers
Locales == {"en", "nl", "pt-BR"}
\* the raw values of the catalogs
Values == {"v", "w"}

\* str::cmp on the raw segments (bytewise): "a" < "bC"
StrLess(s, t) == s = "a" /\ t = "bC"

\* convert_case: s.to_case(Case::Snake)
Snake(s) == CASE s = "a" -> "a" [] s = "bC" -> "b_c" [] OTHER -> s
\* convert_case: s.to_case(Case::Pascal)
Pascal(s) ==
    CASE s = "a" -> "A" [] s = "bC" -> "BC"
      [] s = "en" -> "En" [] s = "nl" -> "Nl" [] s = "pt-BR" -> "PtBr"
      [] OTHER -> s
\* convert_case: s.to_case(Case::ScreamingSnake)
ScreamingSnake(s) ==
    CASE s = "en" -> "EN" [] s = "nl" -> "NL" [] s = "pt-BR" -> "PT_BR" [] OTHER -> s
\* convert_case: s.to_case(Case::Kebab)
Kebab(s) == CASE s = "pt-BR" -> "pt-br" [] OTHER -> s
\* s.to_lowercase().trim()
LowerTrim(s) == CASE s = "pt-BR" -> "pt-br" [] OTHER -> s

\* Vec<String>::cmp: segment-wise lexicographic, a proper prefix sorts first
RECURSIVE PathLess(_, _)
PathLess(p, q) ==
    IF q = << >> THEN FALSE
    ELSE IF p = << >> THEN TRUE
    ELSE IF Head(p) = Head(q) THEN PathLess(Tail(p), Tail(q))
    ELSE StrLess(Head(p), Head(q))

\* StringValuePathPair == : two pairs are equal when their paths are
PairEq(x, y) == x.path = y.path
\* StringValuePathPair < : pairs are ordered by their paths
PairLess(x, y) == PathLess(x.path, y.path)

\* all key paths of 1..n segments
PathsUpTo(n) == UNION {[1..k -> Segs] : k \in 1..n}

\* a catalog is sorted by path, which also makes it duplicate-free
IsSorted(c) == \A i \in 1..(Len(c) - 1) : PairLess(c[i], c[i + 1])

\* the sorted catalogs of at most n entries over the paths P with values of V
Catalogs(P, V, n) ==
    {c \in UNION {[1..k -> [path : P, value : V]] : k \in 0..n} : IsSorted(c)}

\* path.iter().map(|s| s.to_case(Case::Snake)).join(".")
RECURSIVE snake_join(_)
snake_join(p) ==
    IF p = << >> THEN ""
    ELSE IF Len(p) = 1 THEN Snake(p[1])
    ELSE Snake(p[1]) \o "." \o snake_join(Tail(p))

\* path.iter().map(|s| s.to_case(Case::Pascal)).join("")
RECURSIVE pascal_join(_)
pascal_join(p) ==
    IF p = << >> THEN ""
    ELSE Pascal(p[1]) \o pascal_join(Tail(p))

\* format!(r#"r####"{}"####"#, value): the value as a raw string literal
raw_string_literal(value) ==
    "r################\"" \o value \o "\"################"

\* format!("STRINGS_DEFAULT.{}", ...)
default_reference(path) == "STRINGS_DEFAULT." \o snake_join(path)

(***************************************************************************)
(* State.                                                                  *)
(***************************************************************************)
VARIABLES
    \* which operation runs, and where it is
    pc,
    \* LocaleStringWithDefaultIter
    pairs, default_pairs, next_pair, next_default_pair,
    \* the catalogs the iterator was built from, and what collect() gathered
    locale_catalog, default_catalog, merged,
    \* the writer's content: the lines written so far
    w,
    \* what the running function returned ("none" while it runs)
    result,
    \* generate_locales_strings_struct: its argument, and its locals
    struct_input, paths, layer, previous, previous_property, retained_paths,
    \* generate_locales_strings_instance: its argument, the pairs it has yet
    \* to visit, and its locals
    instance_input, instance_pairs, previous_layer, previous_path,
    \* generate_locales: its storage, whether locales.rs exists (w is what it
    \* holds), the default locale's pairs, and the locales yet to be visited
    storage, file_exists, default_pairs_vec, locales_left

mergeVars == << pairs, default_pairs, next_pair, next_default_pair,
                locale_catalog, default_catalog, merged >>
structVars == << struct_input, paths, layer, previous, previous_property,
                 retained_paths >>
instanceVars == << instance_input, instance_pairs, previous_layer, previous_path >>
genVars == << storage, file_exists, default_pairs_vec, locales_left >>
vars == << pc, w, result, mergeVars, structVars, instanceVars, genVars >>

(***************************************************************************)
(* LocaleStringWithDefaultIter.                                            *)
(***************************************************************************)
\* Iterator::next of a vector's iterator: the item, and the rest
IterItem(s) == IF s = << >> THEN None ELSE Some(Head(s))
IterRest(s) == IF s = << >> THEN s ELSE Tail(s)

\* LocaleStringWithDefaultIter::new
iter_new(ps, dps) ==
    [pairs |-> ps, default_pairs |-> IterRest(dps),
     next_pair |-> None, next_default_pair |-> IterItem(dps)]

\* (mutant) the refill of next_default_pair is forgotten
advance_default_forgotten(it) == it

\* self.next_default_pair = self.default_pairs.next()
advance_default(it) ==
    [it EXCEPT !.next_default_pair = IterItem(it.default_pairs),
               !.default_pairs = IterRest(it.default_pairs)]

\* the last peeked pair if there was one, or else the next one
take_pair(it) ==
    IF it.next_pair # None
    THEN [pair |-> it.next_pair, it |-> [it EXCEPT !.next_pair = None]]
    ELSE [pair |-> IterItem(it.pairs), it |-> [it EXCEPT !.pairs = IterRest(it.pairs)]]

\* (mutant) the skip test is `pair <= next_default_pair` and comes first
compare_pair_skips_match(pair, ndp) ==
    IF PairLess(pair, ndp) \/ PairEq(pair, ndp) THEN "skip"
    ELSE "beyond"

\* (mutant) a pair before the default pair is kept as the lookahead, not skipped
compare_pair_keeps_orphan(pair, ndp) ==
    IF PairEq(pair, ndp) THEN "match"
    ELSE "beyond"

\* the comparisons of a fetched pair with the default pair
compare_pair(pair, ndp) ==
    IF PairEq(pair, ndp) THEN "match"
    ELSE IF PairLess(pair, ndp) THEN "skip"
    ELSE "beyond"

\* (mutant) the matching pair's value is passed on as it is, unquoted
literal_item_unquoted(pair) == [path |-> pair.path, value |-> pair.value]

\* the item returned for a matching pair
literal_item(pair) == [path |-> pair.path, value |-> raw_string_literal(pair.value)]
\* (mutant) the default's value is copied into the item as a literal
fallback_item_copies_default(ndp) ==
    [path |-> ndp.path, value |-> raw_string_literal(ndp.value)]

\* the item returned for a default pair the locale does not have
fallback_item(ndp) == [path |-> ndp.path, value |-> default_reference(ndp.path)]

\* (mutant) the fetched pair is not kept
keep_pair_forgotten(it, pair) == it

\* keep our fetched pair for next time
keep_pair(it, pair) == [it EXCEPT !.next_pair = Some(pair)]

\* the loop of next, run with the default pair taken out of the iterator
RECURSIVE next_loop(_, _)
next_loop(it0, ndp) ==
    LET t == take_pair(it0) IN
    IF t.pair = None
    THEN [it |-> advance_default(t.it), item |-> Some(fallback_item(ndp))]
    ELSE LET pair == t.pair[1]
             c == compare_pair(pair, ndp)
         IN  IF c = "match"
             THEN [it |-> advance_default(t.it), item |-> Some(literal_item(pair))]
             ELSE IF c = "skip"
             THEN next_loop(t.it, ndp)
             ELSE [it |-> keep_pair(advance_default(t.it), pair),
                   item |-> Some(fallback_item(ndp))]

\* Iterator::next of LocaleStringWithDefaultIter
iter_next(it) ==
    IF it.next_default_pair = None
    THEN [it |-> it, item |-> None]
    ELSE next_loop([it EXCEPT !.next_default_pair = None], it.next_default_pair[1])

\* Iterator::collect over LocaleStringWithDefaultIter
RECURSIVE iter_collect(_)
iter_collect(it) ==
    LET r == iter_next(it) IN
    IF r.item = None THEN << >> ELSE << r.item[1] >> \o iter_collect(r.it)

\* the iterator as the state holds it
Iter == [pairs |-> pairs, default_pairs |-> default_pairs,
         next_pair |-> next_pair, next_default_pair |-> next_default_pair]

\* the key paths of the merge's catalogs: those of one or two segments
MergePaths == PathsUpTo(2)
\* the catalogs drawn for the merge
MergeCatalogs == Catalogs(MergePaths, Values, MergeMaxLen)

\* the iterator when no merge runs
MergeIdle ==
    /\ pairs = << >>
    /\ default_pairs = << >>
    /\ next_pair = None
    /\ next_default_pair = None
    /\ locale_catalog = << >>
    /\ default_catalog = << >>
    /\ merged = << >>

\* the locals of the schema compiler when it does not run
StructIdle ==
    /\ struct_input = << >>
    /\ paths = << >>
    /\ layer = 0
    /\ previous = None
    /\ previous_property = None
    /\ retained_paths = << >>

\* the locals of the instance emitter when it does not run
InstanceIdle ==
    /\ instance_input = << >>
    /\ instance_pairs = << >>
    /\ previous_layer = 0
    /\ previous_path = None

\* the state of generate_locales when it does not run
GenIdle ==
    /\ storage = [default_locale |-> "en", all_locales |-> << >>,
                  catalogs |-> [l \in Locales |-> None]]
    /\ file_exists = FALSE
    /\ default_pairs_vec = << >>
    /\ locales_left = << >>

\* the inputs of the merge: a non-empty sorted default catalog, a sorted locale catalog
MergeInit ==
    /\ default_catalog \in MergeCatalogs \ {<< >>}
    /\ locale_catalog \in MergeCatalogs
    /\ LET it == iter_new(locale_catalog, default_catalog) IN
       /\ pairs = it.pairs
       /\ default_pairs = it.default_pairs
       /\ next_pair = it.next_pair
       /\ next_default_pair = it.next_default_pair
    /\ merged = << >>
    /\ pc = "merge"
    /\ w = << >>
    /\ result = "none"
    /\ StructIdle
    /\ InstanceIdle
    /\ GenIdle

\* one call of next by collect(): the item is pushed, None ends the collection
MergeNext ==
    /\ pc = "merge"
    /\ LET r == iter_next(Iter) IN
       /\ pairs' = r.it.pairs
       /\ default_pairs' = r.it.default_pairs
       /\ next_pair' = r.it.next_pair
       /\ next_default_pair' = r.it.next_default_pair
       /\ merged' = IF r.item = None THEN merged ELSE Append(merged, r.item[1])
       /\ pc' = IF r.item = None THEN "merge_done" ELSE "merge"
    /\ UNCHANGED << locale_catalog, default_catalog, w, result, structVars,
                    instanceVars, genVars >>

SpecMerge == MergeInit /\ [][MergeNext]_vars

(***************************************************************************)
(* generate_locales_strings_struct, the schema compiler.                   *)
(***************************************************************************)
\* a.cmp(b) on paths, as a sorted path list has it
PathsSorted(ps) == \A i \in 1..(Len(ps) - 1) : PathLess(ps[i], ps[i + 1])

\* the sorted, duplicate-free path lists of at most n paths out of P
SortedPathLists(P, n) ==
    {ps \in UNION {[1..k -> P] : k \in 0..n} : PathsSorted(ps)}

\* path[..n]
Prefix(path, n) == SubSeq(path, 1, n)

\* "pub struct Strings {"
struct_root_line == [t |-> "struct", name |-> "Strings"]
\* "pub struct Strings{} {" of path[..layer]
struct_line(prefix) == [t |-> "struct", name |-> "Strings" \o pascal_join(prefix)]
\* "}"
struct_end_line == [t |-> "end"]
\* "    pub {}: &'static str,"
str_field_line(key) == [t |-> "str_field", key |-> Snake(key)]
\* "    pub {}: Strings{}," of path[..layer + 1]
obj_field_line(key, prefix) ==
    [t |-> "obj_field", key |-> Snake(key), type |-> "Strings" \o pascal_join(prefix)]

\* current: the segment before the layer's, None at layer 0
struct_current(path, l) == IF l = 0 THEN None ELSE Some(path[l])

\* the body of `for path in paths` on the locals st
struct_path_step(st, path) ==
    LET current == struct_current(path, st.layer)
        fresh == st.previous # current
        w1 == IF fresh
              THEN st.w \o << struct_end_line, struct_line(Prefix(path, st.layer)) >>
              ELSE st.w
        key == path[st.layer + 1]
        current_property == Some(key)
        drop == Len(path) = st.layer + 1
        object == ~drop /\ current_property # st.previous_property
    IN  [layer |-> st.layer,
         previous |-> IF fresh THEN current ELSE st.previous,
         previous_property |-> IF object THEN current_property
                               ELSE st.previous_property,
         retained_paths |-> IF drop THEN st.retained_paths
                            ELSE Append(st.retained_paths, path),
         w |-> IF drop THEN Append(w1, str_field_line(key))
               ELSE IF object
               THEN Append(w1, obj_field_line(key, Prefix(path, st.layer + 1)))
               ELSE w1]

\* the locals at the start of a pass of the while loop
struct_layer_start(out, l) ==
    [layer |-> l, previous |-> None, previous_property |-> None,
     retained_paths |-> << >>,
     w |-> IF l = 0 THEN Append(out, struct_root_line) ELSE out]

\* `for path in paths` over ps
RECURSIVE struct_for(_, _)
struct_for(st, ps) ==
    IF ps = << >> THEN st ELSE struct_for(struct_path_step(st, Head(ps)), Tail(ps))

\* the while loop from layer l on, and the closing "}"
RECURSIVE struct_while(_, _, _)
struct_while(out, ps, l) ==
    IF ps = << >> THEN Append(out, struct_end_line)
    ELSE LET st == struct_for(struct_layer_start(out, l), ps)
         IN  struct_while(st.w, st.retained_paths, l + 1)

\* generate_locales_strings_struct(w, paths): what w holds afterwards
generate_locales_strings_struct(out, ps) == struct_while(out, ps, 0)

\* the locals as the state holds them
StructLocals ==
    [layer |-> layer, previous |-> previous, previous_property |-> previous_property,
     retained_paths |-> retained_paths, w |-> w]

\* the key paths given to the schema compiler
StructPaths == PathsUpTo(StructPathLen)

\* the schema compiler is called with a sorted path list
StructInit ==
    /\ struct_input \in SortedPathLists(StructPaths, StructMaxLen)
    /\ paths = struct_input
    /\ layer = 0
    /\ previous = None
    /\ previous_property = None
    /\ retained_paths = << >>
    /\ w = << >>
    /\ result = "none"
    /\ pc = "struct_while"
    /\ MergeIdle
    /\ InstanceIdle
    /\ GenIdle

\* `while !paths.is_empty()` is entered: the locals of the pass are set up
StructLayer ==
    /\ pc = "struct_while"
    /\ paths # << >>
    /\ LET st == struct_layer_start(w, layer) IN
       /\ previous' = st.previous
       /\ previous_property' = st.previous_property
       /\ retained_paths' = st.retained_paths
       /\ w' = st.w
    /\ pc' = "struct_for"
    /\ UNCHANGED << struct_input, paths, layer, result, mergeVars, instanceVars, genVars >>

\* one pass of `for path in paths`
StructPath ==
    /\ pc = "struct_for"
    /\ paths # << >>
    /\ LET st == struct_path_step(StructLocals, Head(paths)) IN
       /\ previous' = st.previous
       /\ previous_property' = st.previous_property
       /\ retained_paths' = st.retained_paths
       /\ w' = st.w
    /\ paths' = Tail(paths)
    /\ UNCHANGED << pc, struct_input, layer, result, mergeVars, instanceVars, genVars >>

\* the for loop is over: layer += 1; paths = retained_paths
StructLayerEnd ==
    /\ pc = "struct_for"
    /\ paths = << >>
    /\ layer' = layer + 1
    /\ paths' = retained_paths
    /\ pc' = "struct_while"
    /\ UNCHANGED << struct_input, previous, previous_property, retained_paths,
                    w, result, mergeVars, instanceVars, genVars >>

\* no paths are left: the closing "}" is written and Ok(()) returned
StructFinish ==
    /\ pc = "struct_while"
    /\ paths = << >>
    /\ w' = Append(w, struct_end_line)
    /\ result' = "Ok"
    /\ pc' = "struct_done"
    /\ UNCHANGED << struct_input, paths, layer, previous, previous_property,
                    retained_paths, mergeVars, instanceVars, genVars >>

StructNext == StructLayer \/ StructPath \/ StructLayerEnd \/ StructFinish

SpecStruct == StructInit /\ [][StructNext]_vars

(***************************************************************************)
(* generate_locales_strings_instance, the instance emitter.                *)
(***************************************************************************)
\* "const {}: Strings = Strings {"
const_line(const_name) == [t |-> "const", name |-> const_name]
\* "{indent}{}: Strings{} {" for the segment at `at` (counted from 0) of path
open_line(path, at) ==
    [t |-> "open", indent |-> at + 1, key |-> Snake(path[at + 1]),
     type |-> "Strings" \o pascal_join(Prefix(path, at + 1))]
\* "{indent}},"
close_line(indent) == [t |-> "close", indent |-> indent]
\* "{indent}{}: {}," for the segment at `at` (counted from 0) of the pair's path
leaf_line(pair, at) ==
    [t |-> "leaf", indent |-> at + 1, key |-> Snake(pair.path[at + 1]),
     value |-> pair.value]
\* "};"
const_end_line == [t |-> "const_end"]

\* the opening lines for the segments from..(to - 1) of path
open_lines(path, from, to) ==
    [i \in 1..(to - from) |-> open_line(path, from + i - 1)]

\* (mutant) the loop stops one level early: `while target + 1 < previous_layer`
close_lines_one_short(from, to) ==
    [i \in 1..(from - to - 1) |-> close_line(from - i + 1)]

\* the closing lines from depth `from` down to depth `to`, innermost first
close_lines(from, to) ==
    [i \in 1..(from - to) |-> close_line(from - i + 1)]

\* for (key_a, key_b) in pair.path.iter().zip(previous_path): the count of
\* leading segments the two paths share
RECURSIVE overlap(_, _)
overlap(p, q) ==
    IF p = << >> \/ q = << >> THEN 0
    ELSE IF Head(p) # Head(q) THEN 0
    ELSE 1 + overlap(Tail(p), Tail(q))

\* the lines written before the leaf when the pair is on the previous layer
equal_layer_lines(st, pair) ==
    IF st.previous_path = None THEN << >>
    ELSE LET overlap_layer == overlap(pair.path, st.previous_path[1])
         IN  IF overlap_layer < st.previous_layer
             THEN close_lines(st.previous_layer, overlap_layer)
                      \o open_lines(pair.path, overlap_layer, st.previous_layer)
             ELSE << >>

\* the body of `for pair in pairs` on the locals st
instance_pair_step(st, pair) ==
    LET current_layer == Len(pair.path) - 1
        nesting ==
            IF current_layer > st.previous_layer
            THEN open_lines(pair.path, st.previous_layer, current_layer)
            ELSE IF current_layer < st.previous_layer
            THEN close_lines(st.previous_layer, current_layer)
            ELSE equal_layer_lines(st, pair)
    IN  [previous_layer |-> current_layer,
         previous_path |-> Some(pair.path),
         w |-> (st.w \o nesting) \o << leaf_line(pair, current_layer) >>]

\* the locals before the first pair
instance_start(out, const_name) ==
    [previous_layer |-> 0, previous_path |-> None,
     w |-> Append(out, const_line(const_name))]

\* all the final curly brackets, including the last one
instance_end(st) == (st.w \o close_lines(st.previous_layer, 0)) \o << const_end_line >>

\* `for pair in pairs` over ps
RECURSIVE instance_for(_, _)
instance_for(st, ps) ==
    IF ps = << >> THEN st ELSE instance_for(instance_pair_step(st, Head(ps)), Tail(ps))

\* generate_locales_strings_instance(w, const_name, pairs): what w holds afterwards
generate_locales_strings_instance(out, const_name, ps) ==
    instance_end(instance_for(instance_start(out, const_name), ps))

\* the locals as the state holds them
InstanceLocals ==
    [previous_layer |-> previous_layer, previous_path |-> previous_path, w |-> w]

\* the key paths given to the instance emitter
InstancePaths == PathsUpTo(InstancePathLen)

\* the pairs given to the instance emitter: a path with a literal or with a
\* reference to the default instance
InstancePairs ==
    {[path |-> p, value |-> raw_string_literal("v")] : p \in InstancePaths}
        \cup {[path |-> p, value |-> default_reference(p)] : p \in InstancePaths}

\* the instance emitter is called with any sequence of pairs: the opening
\* line is written
InstanceInit ==
    /\ instance_input \in UNION {[1..k -> InstancePairs] : k \in 0..InstanceMaxLen}
    /\ instance_pairs = instance_input
    /\ LET st == instance_start(<< >>, "STRINGS_DEFAULT") IN
       /\ previous_layer = st.previous_layer
       /\ previous_path = st.previous_path
       /\ w = st.w
    /\ result = "none"
    /\ pc = "instance_for"
    /\ MergeIdle
    /\ StructIdle
    /\ GenIdle

\* one pass of `for pair in pairs`
InstancePair ==
    /\ pc = "instance_for"
    /\ instance_pairs # << >>
    /\ LET st == instance_pair_step(InstanceLocals, Head(instance_pairs)) IN
       /\ previous_layer' = st.previous_layer
       /\ previous_path' = st.previous_path
       /\ w' = st.w
    /\ instance_pairs' = Tail(instance_pairs)
    /\ UNCHANGED << pc, result, instance_input, mergeVars, structVars, genVars >>

\* the pairs are over: the open groups and the initializer are closed
InstanceFinish ==
    /\ pc = "instance_for"
    /\ instance_pairs = << >>
    /\ w' = instance_end(InstanceLocals)
    /\ previous_layer' = 0
    /\ result' = "Ok"
    /\ pc' = "instance_done"
    /\ UNCHANGED << instance_input, instance_pairs, previous_path, mergeVars,
                    structVars, genVars >>

InstanceNext == InstancePair \/ InstanceFinish

SpecInstance == InstanceInit /\ [][InstanceNext]_vars

(***************************************************************************)
(* The storage (i18n::locales::Storage).                                   *)
(***************************************************************************)
\* Storage::default_locale
default_locale(st) == st.default_locale
\* Storage::all_locales, in the order it enumerates them
all_locales(st) == st.all_locales
\* Storage::get: the catalog of a locale, if it has one
get(st, locale) == st.catalogs[locale]
\* Storage::get_default
get_default(st) == get(st, default_locale(st))
\* StringValues::iter().collect(): the pairs of a catalog, sorted by path
iter_pairs(catalog) == catalog

\* the key paths of the storage's catalogs: those of one or two segments
StoragePaths == PathsUpTo(2)
\* the sequences of distinct locales
LocaleSeqs ==
    {ls \in UNION {[1..k -> Locales] : k \in 0..Cardinality(Locales)} :
        \A i, j \in 1..Len(ls) : ls[i] = ls[j] => i = j}
\* the storages: a default locale, the locales it enumerates, and for each of
\* them a catalog or none; the values of a locale's catalog are all the
\* locale's identifier
Storages ==
    {st \in [default_locale : Locales, all_locales : LocaleSeqs,
             catalogs : [Locales -> {None} \cup
                            {Some(c) : c \in Catalogs(StoragePaths, Locales,
                                                      StorageMaxLen)}]] :
        \A l \in Locales :
            /\ l \notin {st.all_locales[i] : i \in 1..Len(st.all_locales)} =>
                   st.catalogs[l] = None
            /\ st.catalogs[l] # None =>
                   \A i \in 1..Len(st.catalogs[l][1]) : st.catalogs[l][1][i].value = l}

(***************************************************************************)
(* generate_locales_enum.                                                  *)
(***************************************************************************)
\* (mutant) the default locale's arm names the constant after the locale too
strings_const_by_locale(st, locale) == "STRINGS_" \o ScreamingSnake(locale)

\* the constant a locale's arm of Locales::strings refers to
strings_const(st, locale) ==
    "STRINGS_" \o (IF locale = default_locale(st) THEN "DEFAULT"
                   ELSE ScreamingSnake(locale))

\* 1. the enum type
enum_type_lines(st) ==
    (<< [t |-> "enum"] >>
        \o [i \in 1..Len(all_locales(st)) |->
               [t |-> "variant", variant |-> Pascal(all_locales(st)[i])]])
        \o << [t |-> "enum_end"] >>
\* 2. Locales::strings
enum_strings_lines(st) ==
    (<< [t |-> "fn_strings"] >>
        \o [i \in 1..Len(all_locales(st)) |->
               [t |-> "strings_arm", variant |-> Pascal(all_locales(st)[i]),
                const |-> strings_const(st, all_locales(st)[i])]])
        \o << [t |-> "fn_end"] >>
\* 2. Locales::as_str
enum_as_str_lines(st) ==
    (<< [t |-> "fn_as_str"] >>
        \o [i \in 1..Len(all_locales(st)) |->
               [t |-> "as_str_arm", variant |-> Pascal(all_locales(st)[i]),
                str |-> Kebab(all_locales(st)[i])]])
        \o << [t |-> "fn_end"] >>
\* 3. From<&str> for Locales
enum_from_lines(st) ==
    (<< [t |-> "impl_from"] >>
        \o [i \in 1..Len(all_locales(st)) |->
               [t |-> "from_arm", str |-> LowerTrim(all_locales(st)[i]),
                variant |-> Pascal(all_locales(st)[i])]])
        \o << [t |-> "from_default_arm"], [t |-> "fn_end"] >>
\* 4. the default locale constant
enum_default_lines(st) ==
    << [t |-> "default_locale", variant |-> Pascal(default_locale(st))] >>

\* generate_locales_enum(w, storage): what w holds afterwards
generate_locales_enum(out, st) ==
    ((((out \o enum_type_lines(st)) \o enum_strings_lines(st))
        \o enum_as_str_lines(st)) \o enum_from_lines(st)) \o enum_default_lines(st)

(***************************************************************************)
(* generate_locales.                                                       *)
(***************************************************************************)
\* default_pairs.iter().map(|p| p.path.clone()).collect()
paths_of_pairs(ps) == [i \in 1..Len(ps) |-> ps[i].path]

\* default_pairs_stringified: each value as a raw string literal
stringified(ps) ==
    [i \in 1..Len(ps) |->
        [path |-> ps[i].path, value |-> raw_string_literal(ps[i].value)]]

\* all_locales().filter(|locale| locale != &storage.default_locale())
RECURSIVE without_default(_, _)
without_default(ls, d) ==
    IF ls = << >> THEN << >>
    ELSE IF Head(ls) # d THEN << Head(ls) >> \o without_default(Tail(ls), d)
    ELSE without_default(Tail(ls), d)

\* the constant's name of a non-default locale's instance
locale_const_name(locale) == "STRINGS_" \o ScreamingSnake(locale)

\* the errors of generate_locales
ErrCreate == "Err: create locales rust file"
ErrNoDefault == "Err: failed to get default locale in i18n storage"
ErrNoStrings == "Err: failed to get strings for locale"
ErrWrite == "Err: write failed"

\* generate_locales is called on a storage; locales.rs does not exist yet
GenInit ==
    /\ storage \in Storages
    /\ file_exists = FALSE
    /\ w = << >>
    /\ default_pairs_vec = << >>
    /\ locales_left = << >>
    /\ result = "none"
    /\ pc = "create"
    /\ MergeIdle
    /\ StructIdle
    /\ InstanceIdle

\* fs::create_dir_all and File::create succeed: locales.rs exists, empty
GenCreate ==
    /\ pc = "create"
    /\ file_exists' = TRUE
    /\ w' = << >>
    /\ pc' = "get_default"
    /\ UNCHANGED << result, storage, default_pairs_vec, locales_left, mergeVars,
                    structVars, instanceVars >>

\* fs::create_dir_all or File::create fails: the error is returned
GenCreateFails ==
    /\ pc = "create"
    /\ result' = ErrCreate
    /\ pc' = "done"
    /\ UNCHANGED << w, genVars, mergeVars, structVars, instanceVars >>

\* storage.get_default(): without a default catalog the error is returned
GenGetDefault ==
    /\ pc = "get_default"
    /\ IF get_default(storage) = None
       THEN /\ result' = ErrNoDefault
            /\ pc' = "done"
       ELSE /\ pc' = "enum"
            /\ UNCHANGED result
    /\ UNCHANGED << w, genVars, mergeVars, structVars, instanceVars >>

\* generate_locales_enum writes the enum; the default pairs are collected
GenEnum ==
    /\ pc = "enum"
    /\ w' = generate_locales_enum(w, storage)
    /\ default_pairs_vec' = iter_pairs(get_default(storage)[1])
    /\ pc' = "struct"
    /\ UNCHANGED << result, storage, file_exists, locales_left, mergeVars,
                    structVars, instanceVars >>

\* generate_locales_strings_struct writes the schema of the default paths
GenStruct ==
    /\ pc = "struct"
    /\ w' = generate_locales_strings_struct(w, paths_of_pairs(default_pairs_vec))
    /\ pc' = "default_instance"
    /\ UNCHANGED << result, genVars, mergeVars, structVars, instanceVars >>

\* generate_locales_strings_instance writes STRINGS_DEFAULT from the default
\* pairs, stringified; the loop over the other locales begins
GenDefaultInstance ==
    /\ pc = "default_instance"
    /\ w' = generate_locales_strings_instance(w, "STRINGS_DEFAULT",
                                              stringified(default_pairs_vec))
    /\ locales_left' = without_default(all_locales(storage), default_locale(storage))
    /\ pc' = "locales"
    /\ UNCHANGED << result, storage, file_exists, default_pairs_vec, mergeVars,
                    structVars, instanceVars >>

\* one pass of the loop over the other locales: without a catalog the error
\* is returned, else the locale's pairs are merged with the default pairs
\* and its instance is written
GenLocale ==
    /\ pc = "locales"
    /\ locales_left # << >>
    /\ LET locale == Head(locales_left) IN
       IF get(storage, locale) = None
       THEN /\ result' = ErrNoStrings
            /\ pc' = "done"
            /\ UNCHANGED << w, locales_left >>
       ELSE /\ w' = generate_locales_strings_instance(
                        w, locale_const_name(locale),
                        iter_collect(iter_new(iter_pairs(get(storage, locale)[1]),
                                              default_pairs_vec)))
            /\ locales_left' = Tail(locales_left)
            /\ UNCHANGED << pc, result >>
    /\ UNCHANGED << storage, file_exists, default_pairs_vec, mergeVars,
                    structVars, instanceVars >>

\* the loop is over: Ok(())
GenFinish ==
    /\ pc = "locales"
    /\ locales_left = << >>
    /\ result' = "Ok"
    /\ pc' = "done"
    /\ UNCHANGED << w, genVars, mergeVars, structVars, instanceVars >>

\* a write_all of the stage about to run fails: the error is returned with
\* what was written before left in the file
GenWriteFails ==
    /\ \/ pc \in {"enum", "struct", "default_instance"}
       \/ /\ pc = "locales"
          /\ locales_left # << >>
          /\ get(storage, Head(locales_left)) # None
    /\ result' = ErrWrite
    /\ pc' = "done"
    /\ UNCHANGED << w, genVars, mergeVars, structVars, instanceVars >>

Next ==
    \/ GenCreate
    \/ GenCreateFails
    \/ GenGetDefault
    \/ GenEnum
    \/ GenStruct
    \/ GenDefaultInstance
    \/ GenLocale
    \/ GenFinish
    \/ GenWriteFails

Spec == GenInit /\ [][Next]_vars

(***************************************************************************)
(* Properties of the merge (SpecMerge).                                    *)
(***************************************************************************)
\* the paths of a catalog, in its order
PathsOf(c) == [i \in 1..Len(c) |-> c[i].path]
\* the set of paths of a catalog
PathSetOf(c) == {c[i].path : i \in 1..Len(c)}
\* the entries of c whose path is in the set P, in c's order
RECURSIVE KnownOnly(_, _)
KnownOnly(c, P) ==
    IF c = << >> THEN << >>
    ELSE IF Head(c).path \in P THEN << Head(c) >> \o KnownOnly(Tail(c), P)
    ELSE KnownOnly(Tail(c), P)
\* the texts a fallback reference can have
FallbackRefs == {default_reference(p) : p \in MergePaths}
\* the texts a literal can have
Literals == {raw_string_literal(v) : v \in Values}

\* C1: the merge yields the default catalog's paths in the default catalog's
\* order: what was yielded so far carries the paths of the first entries of
\* D, and once next returned None exactly len(D) entries were yielded.
C1_MergeFollowsDefault ==
    pc \in {"merge", "merge_done"} =>
        /\ Len(merged) <= Len(default_catalog)
        /\ \A i \in 1..Len(merged) : merged[i].path = default_catalog[i].path
        /\ pc = "merge_done" => Len(merged) = Len(default_catalog)

\* C1's case: a finished merge of a two-entry default catalog with a locale
\* catalog that has one of its paths and one path of its own
C1_Witness ==
    /\ pc = "merge_done"
    /\ Len(default_catalog) = 2
    /\ Len(merged) = 2
    /\ PathSetOf(locale_catalog) \cap PathSetOf(default_catalog) # {}
    /\ PathSetOf(locale_catalog) \ PathSetOf(default_catalog) # {}

\* C2: the entry yielded for a default path d is the literal of L's own value
\* for d when L has an entry at d, and the reference to the default's field
\* at d exactly when L has no entry at d.
C2_LiteralIffLocaleHasPath ==
    pc \in {"merge", "merge_done"} =>
        \A i \in 1..Len(merged) :
            LET d == default_catalog[i].path
                at == {j \in 1..Len(locale_catalog) : locale_catalog[j].path = d}
            IN  /\ \A j \in at :
                       merged[i].value = raw_string_literal(locale_catalog[j].value)
                /\ merged[i].value \in FallbackRefs <=> at = {}
                /\ at = {} => merged[i].value = default_reference(d)

\* C2's case: a finished merge in which L translates one default path with a
\* value other than the default's, and lacks another default path
C2_Witness ==
    /\ pc = "merge_done"
    /\ \E i \in 1..Len(default_catalog), j \in 1..Len(locale_catalog) :
           /\ locale_catalog[j].path = default_catalog[i].path
           /\ locale_catalog[j].value # default_catalog[i].value
           /\ merged[i].value = raw_string_literal(locale_catalog[j].value)
    /\ \E i \in 1..Len(default_catalog) :
           /\ default_catalog[i].path \notin PathSetOf(locale_catalog)
           /\ merged[i].value \in FallbackRefs

\* C8: entries of L at paths D does not have are dropped without a trace:
\* no yielded entry carries such a path, and the finished merge is the merge
\* of D with L stripped of those entries.
C8_OrphansDropped ==
    /\ pc \in {"merge", "merge_done"} =>
           \A i \in 1..Len(merged) : merged[i].path \in PathSetOf(default_catalog)
    /\ pc = "merge_done" =>
           merged = iter_collect(iter_new(
                        KnownOnly(locale_catalog, PathSetOf(default_catalog)),
                        default_catalog))

\* C8's case: a finished merge where an orphan entry of L sorts between two
\* default paths, and L's entry for the second default path came through
C8_Witness ==
    /\ pc = "merge_done"
    /\ Len(default_catalog) = 2
    /\ \E j \in 1..Len(locale_catalog) :
           /\ PairLess(default_catalog[1], locale_catalog[j])
           /\ PairLess(locale_catalog[j], default_catalog[2])
    /\ merged[2].value \in Literals

\* C10: merging the default catalog with itself yields a literal of D's own
\* value at every path, and no reference.
C10_MergeWithSelfAllLiterals ==
    (pc \in {"merge", "merge_done"} /\ locale_catalog = default_catalog) =>
        /\ \A i \in 1..Len(merged) :
               /\ merged[i].value = raw_string_literal(default_catalog[i].value)
               /\ merged[i].value \notin FallbackRefs
        /\ pc = "merge_done" => Len(merged) = Len(default_catalog)

\* C10's case: a finished merge of a two-entry catalog with itself
C10_Witness ==
    /\ pc = "merge_done"
    /\ locale_catalog = default_catalog
    /\ Len(merged) = 2

\* the catalog c with the values vs in place of its own, entry by entry
Revalued(c, vs) == [i \in 1..Len(c) |-> [path |-> c[i].path, value |-> vs[i]]]

\* C11: the merge does not read the default catalog's values: the finished
\* merge is the merge of L with any default catalog of the same paths and
\* other values, and the entry yielded for a default path L lacks is the
\* reference to the default instance's field at that path, not the literal
\* of the default's value.
C11_FallbackIsSymbolic ==
    /\ pc \in {"merge", "merge_done"} =>
           \A i \in 1..Len(merged) :
               default_catalog[i].path \notin PathSetOf(locale_catalog) =>
                   /\ merged[i].value = default_reference(default_catalog[i].path)
                   /\ merged[i].value \notin Literals
                   /\ merged[i].value # default_catalog[i].value
    /\ pc = "merge_done" =>
           \A vs \in [1..Len(default_catalog) -> Values] :
               merged = iter_collect(iter_new(locale_catalog,
                                              Revalued(default_catalog, vs)))

\* C11's case: a finished merge that yielded references for two default
\* entries of different values, and a literal for a third
C11_Witness ==
    /\ pc = "merge_done"
    /\ \E i, j \in 1..Len(merged) :
           /\ merged[i].value \in FallbackRefs
           /\ merged[j].value \in FallbackRefs
           /\ default_catalog[i].value # default_catalog[j].value
    /\ \E i \in 1..Len(merged) : merged[i].value \in Literals

\* s is what is left of t after some of its first entries were taken
Suffix(s, t) ==
    Len(s) <= Len(t) /\ s = SubSeq(t, Len(t) - Len(s) + 1, Len(t))

\* the sweep's positions: what is left of either catalog is a suffix of it;
\* the lookahead is the locale entry pulled last, it sorts after the default
\* path yielded last, and a last pulled entry that does so is the lookahead;
\* with the default catalog used up, next returns None and changes nothing
SweepState ==
    pc \in {"merge", "merge_done"} =>
        LET k == Len(locale_catalog) - Len(pairs) IN
        /\ Suffix(pairs, locale_catalog)
        /\ Suffix(default_pairs, default_catalog)
        /\ next_pair # None =>
               /\ k > 0
               /\ merged # << >>
               /\ next_pair = Some(locale_catalog[k])
               /\ PathLess(merged[Len(merged)].path, locale_catalog[k].path)
        /\ (/\ k > 0
            /\ merged # << >>
            /\ PathLess(merged[Len(merged)].path, locale_catalog[k].path)) =>
               next_pair = Some(locale_catalog[k])
        /\ next_default_pair = None =>
               /\ default_pairs = << >>
               /\ iter_next(Iter) = [it |-> Iter, item |-> None]

\* a call of next: neither catalog is rewound and at most one default entry
\* is pulled; a held lookahead is compared with the default path before any
\* other locale entry is pulled, so that on a match or beyond it no locale
\* entry is pulled at all
SweepStep ==
    /\ Suffix(pairs', pairs)
    /\ Suffix(default_pairs', default_pairs)
    /\ Len(default_pairs) - Len(default_pairs') <= 1
    /\ (next_pair # None /\ next_default_pair # None) =>
           LET pair == next_pair[1]
               ndp == next_default_pair[1]
           IN  /\ pair.path = ndp.path =>
                      /\ pairs' = pairs
                      /\ next_pair' = None
                      /\ merged' = Append(merged, [path |-> pair.path,
                                     value |-> raw_string_literal(pair.value)])
               /\ PathLess(ndp.path, pair.path) =>
                      /\ pairs' = pairs
                      /\ next_pair' = next_pair
               /\ PathLess(pair.path, ndp.path) =>
                      (next_pair' # None => Len(pairs') < Len(pairs))
    /\ next_default_pair = None =>
           /\ pc' = "merge_done"
           /\ UNCHANGED << mergeVars >>

\* C13: the merge is one forward sweep: no entry of D or of L is pulled
\* twice, an L entry sorting after the current default path is held as the
\* lookahead and is the first L entry compared with the next default path,
\* and once D is used up every call of next returns None.
C13_SingleForwardSweep == []SweepState /\ [][SweepStep]_vars

\* C13's case: a finished merge in which an entry of L was held as the
\* lookahead after a first one was skipped, and matched the default path
\* after
C13_Witness ==
    /\ pc = "merge_done"
    /\ Len(locale_catalog) >= 2
    /\ PathLess(locale_catalog[1].path, default_catalog[1].path)
    /\ \E i \in 1..(Len(merged) - 1) :
           /\ merged[i].value \in FallbackRefs
           /\ merged[i + 1].value \in Literals
           /\ locale_catalog[2].path = merged[i + 1].path

(***************************************************************************)
(* Properties of the schema compiler (SpecStruct).                         *)
(***************************************************************************)
\* p is a proper prefix of q
IsProperPrefix(p, q) == Len(p) < Len(q) /\ Prefix(q, Len(p)) = p
\* some path of ps is a leaf and a proper prefix of another path of ps
HasConflict(ps) ==
    \E i, j \in 1..Len(ps) : IsProperPrefix(ps[i], ps[j])
\* the non-empty proper prefixes of the paths of ps
ProperPrefixes(ps) ==
    UNION {{Prefix(ps[i], n) : n \in 1..(Len(ps[i]) - 1)} : i \in 1..Len(ps)}
\* the lines of out that begin a record type
StructStarts(out) == {i \in 1..Len(out) : out[i].t = "struct"}
\* the lines of the record type begun at line i: up to the next "}"
StructBody(out, i) ==
    {j \in (i + 1)..Len(out) :
        \A k \in (i + 1)..j : out[k].t \in {"str_field", "obj_field"}}

\* C3: a path set in which a path is both a leaf and a proper prefix of
\* another path is refused with SchemaConflict and no schema is written, and
\* no record type ever declares one field name both as a leaf and as a
\* nested record.
C3_SchemaConflictRefused ==
    pc \in {"struct_while", "struct_for", "struct_done"} =>
        /\ (pc = "struct_done" /\ HasConflict(struct_input)) =>
               (result = "SchemaConflict" /\ w = << >>)
        /\ \A i \in StructStarts(w) :
               \A j, k \in StructBody(w, i) :
                   ~(/\ w[j].t = "str_field"
                     /\ w[k].t = "obj_field"
                     /\ w[j].key = w[k].key)

\* C5: for a non-empty sorted conflict-free path set the finished schema has
\* the root type and one record type per distinct non-empty proper prefix of
\* a path, named by the whole prefix, each declared once.
C5_OneTypePerPrefix ==
    (pc = "struct_done" /\ struct_input # << >> /\ ~HasConflict(struct_input)) =>
        /\ {w[i].name : i \in StructStarts(w)} =
               {"Strings"} \cup
               {"Strings" \o pascal_join(q) : q \in ProperPrefixes(struct_input)}
        /\ \A i, j \in StructStarts(w) : w[i].name = w[j].name => i = j

\* the paths of ps that start with the prefix P and go on after it
PathsUnder(ps, P) ==
    SelectSeq(ps, LAMBDA q : Len(q) > Len(P) /\ Prefix(q, Len(P)) = P)

\* the fields of the record type of prefix P over the paths qs under P: one
\* per next segment not in seen, in order of first appearance
RECURSIVE FieldsOf(_, _, _)
FieldsOf(qs, P, seen) ==
    IF qs = << >> THEN << >>
    ELSE LET q == Head(qs)
             seg == q[Len(P) + 1]
         IN  IF seg \in seen THEN FieldsOf(Tail(qs), P, seen)
             ELSE << IF Len(q) = Len(P) + 1 THEN str_field_line(seg)
                     ELSE obj_field_line(seg, Prefix(q, Len(P) + 1)) >>
                  \o FieldsOf(Tail(qs), P, seen \cup {seg})

\* the field lines of the record type begun at line i, in order
StructFields(out, i) == SubSeq(out, i + 1, i + Cardinality(StructBody(out, i)))

\* C12: for a non-empty sorted conflict-free path set, every record type of
\* the finished schema that bears the name of a prefix P declares exactly
\* one field per distinct next segment of the paths under P, in order of
\* first appearance, leaf-typed where the path ends there and typed by the
\* child record of P extended by the segment otherwise; a nested field is
\* not left out because the group before declared one of the same name.
C12_FieldsPerNextSegment ==
    (pc = "struct_done" /\ struct_input # << >> /\ ~HasConflict(struct_input)) =>
        \A i \in StructStarts(w) :
            \A P \in {<< >>} \cup ProperPrefixes(struct_input) :
                w[i].name = "Strings" \o pascal_join(P) =>
                    StructFields(w, i) = FieldsOf(PathsUnder(struct_input, P), P, {})

(***************************************************************************)
(* Properties of the instance emitter (SpecInstance).                      *)
(***************************************************************************)
\* the first n lines of out
Lines(out, n) == SubSeq(out, 1, n)
\* how many lines of kind t are among the first n lines of out
CountLines(out, n, t) == Cardinality({i \in 1..n : out[i].t = t})
\* the keys of the groups open after the lines of out, outermost first
RECURSIVE OpenGroups(_)
OpenGroups(out) ==
    IF out = << >> THEN << >>
    ELSE LET before == OpenGroups(Lines(out, Len(out) - 1))
             line == out[Len(out)]
         IN  IF line.t = "open" THEN Append(before, line.key)
             ELSE IF line.t = "close" /\ before # << >>
             THEN Lines(before, Len(before) - 1)
             ELSE before
\* the field names of a path's segments but the last
GroupKeys(path) == [n \in 1..(Len(path) - 1) |-> Snake(path[n])]

\* C4: for a sorted, duplicate-free, conflict-free sequence of pairs, the
\* groups open when a pair's leaf is written are those of the pair's path
\* without its last segment, outermost first.
C4_LeafInItsOwnGroup ==
    (/\ pc \in {"instance_for", "instance_done"}
     /\ IsSorted(instance_input)
     /\ ~HasConflict(PathsOf(instance_input))) =>
        \A i \in 1..Len(w) :
            w[i].t = "leaf" =>
                OpenGroups(Lines(w, i - 1)) =
                    GroupKeys(instance_input[CountLines(w, i, "leaf")].path)

\* C7: for any sequence of pairs, at no point of the output are more groups
\* closed than were opened, and when the top-level initializer is closed
\* every group that was opened has been closed.
C7_MarkersBalance ==
    pc \in {"instance_for", "instance_done"} =>
        /\ \A n \in 0..Len(w) : CountLines(w, n, "close") <= CountLines(w, n, "open")
        /\ \A n \in 1..Len(w) :
               w[n].t = "const_end" =>
                   CountLines(w, n, "close") = CountLines(w, n, "open")
        /\ pc = "instance_done" => w[Len(w)].t = "const_end"

\* C7's case: a finished emission in which groups were opened for a first
\* pair, closed and opened again for the second, and closed at the end
C7_Witness ==
    /\ pc = "instance_done"
    /\ Len(instance_input) = 2
    /\ CountLines(w, Len(w), "open") >= 3
    /\ \E i, j \in 1..Len(w) : i < j /\ w[i].t = "close" /\ w[j].t = "open"
    /\ w[Len(w) - 1].t = "close"

(***************************************************************************)
(* Properties of generate_locales (Spec).                                  *)
(***************************************************************************)
\* C6: a run on a storage whose default catalog is absent, or present but
\* empty, never ends with Ok: it ends with the error of the missing default
\* locale, unless creating or writing the file failed first.
C6_MissingOrEmptyDefaultFails ==
    (/\ pc = "done"
     /\ get_default(storage) \in {None, Some(<< >>)}) =>
        /\ result # "Ok"
        /\ result \in {ErrNoDefault, ErrCreate, ErrWrite}

\* C9: a run that ends with an error leaves no output behind: locales.rs
\* does not exist, or holds nothing.
C9_NoPartialOutput ==
    (pc = "done" /\ result # "Ok") => (~file_exists \/ w = << >>)

\* the lines of out that begin an instance, in order
ConstStarts(out) ==
    SelectSeq([i \in 1..Len(out) |-> i], LAMBDA i : out[i].t = "const")

\* the leaf lines of the instance begun at line i: those up to its "};"
InstanceLeaves(out, i) ==
    LET e == CHOOSE j \in i..Len(out) :
                 /\ out[j].t = "const_end"
                 /\ \A k \in i..(j - 1) : out[k].t # "const_end"
    IN  SelectSeq(SubSeq(out, i + 1, e), LAMBDA ln : ln.t = "leaf")

\* the locales of the storage other than the default one, in order
OtherLocales(st) ==
    SelectSeq(all_locales(st), LAMBDA l : l # default_locale(st))

\* the value merge(D, L) has at the k-th path of D
MergeValue(D, L, k) ==
    IF \E j \in 1..Len(L) : L[j].path = D[k].path
    THEN raw_string_literal(L[CHOOSE j \in 1..Len(L) : L[j].path = D[k].path].value)
    ELSE default_reference(D[k].path)

\* C14: in the file of a successful run the schema stands once and before
\* every instance, and there is one instance per locale of the storage: the
\* default locale's first, holding the literals of its own catalog, then one
\* per other locale holding merge(D, L); the default locale is never among
\* the locales that are merged.
C14_SchemaThenInstances ==
    /\ pc \in {"locales", "done"} =>
           \A i \in 1..Len(locales_left) : locales_left[i] # default_locale(storage)
    /\ (pc = "done" /\ result = "Ok") =>
           LET D == get_default(storage)[1]
               roots == {i \in StructStarts(w) : w[i].name = "Strings"}
               cs == ConstStarts(w)
               others == OtherLocales(storage)
           IN  /\ Cardinality(roots) = 1
               /\ \A i \in StructStarts(w) : \A n \in 1..Len(cs) : i < cs[n]
               /\ Len(cs) = Len(all_locales(storage))
               /\ Len(cs) = 1 + Len(others)
               /\ w[cs[1]].name = "STRINGS_DEFAULT"
               /\ LET lv == InstanceLeaves(w, cs[1]) IN
                  /\ Len(lv) = Len(D)
                  /\ \A k \in 1..Len(D) :
                         lv[k].value = raw_string_literal(D[k].value)
               /\ \A n \in 1..Len(others) :
                      LET L == get(storage, others[n])[1]
                          lv == InstanceLeaves(w, cs[n + 1])
                      IN  /\ w[cs[n + 1]].name = "STRINGS_" \o ScreamingSnake(others[n])
                          /\ Len(lv) = Len(D)
                          /\ \A k \in 1..Len(D) : lv[k].value = MergeValue(D, L, k)

\* the constants the arms of Locales::strings in out refer to
DispatchConsts(out) ==
    {out[i].const : i \in {j \in 1..Len(out) : out[j].t = "strings_arm"}}

\* the constants of the instances in out
EmittedConsts(out) ==
    {out[i].name : i \in {j \in 1..Len(out) : out[j].t = "const"}}

\* C15: in the file of a successful run the constants Locales::strings
\* refers to are the constants emitted: STRINGS_DEFAULT for the default
\* locale and STRINGS_<LOCALE> for every other locale of the storage; no
\* arm refers to a constant that is missing, no constant is left unused.
C15_DispatchMatchesInstances ==
    (pc = "done" /\ result = "Ok") =>
        /\ DispatchConsts(w) = EmittedConsts(w)
        /\ EmittedConsts(w) =
               {"STRINGS_DEFAULT"} \cup
               {"STRINGS_" \o ScreamingSnake(OtherLocales(storage)[n]) :
                    n \in 1..Len(OtherLocales(storage))}
        /\ \A n \in 1..Len(all_locales(storage)) :
               \E i \in 1..Len(w) :
                   /\ w[i].t = "strings_arm"
                   /\ w[i].variant = Pascal(all_locales(storage)[n])
                   /\ w[i].const \in EmittedConsts(w)

\* C15's case: a successful run over three locales of which the default one
\* is not enumerated first, with a non-empty default catalog
C15_Witness ==
    /\ pc = "done"
    /\ result = "Ok"
    /\ Len(all_locales(storage)) = 3
    /\ all_locales(storage)[1] # default_locale(storage)
    /\ get_default(storage) # Some(<< >>)
    /\ Cardinality(DispatchConsts(w)) = 3

=============================================================================
